---- MODULE Spec2Model ----
(***************************************************************************)
(* Content-sync engine of aprendenotion: the Notion helpers (client, disk  *)
(* cache, property projection, slug derivation, paginated query, recursive *)
(* block resolution) and the two collection loaders (blog, lessons).       *)
(*                                                                         *)
(* JavaScript strings that the code inspects character by character        *)
(* (titles, rich text, slugs) are sequences of one-character tokens;       *)
(* strings that are only compared and passed on (select names, dates,      *)
(* urls, identifiers) are TLA+ strings.                                    *)
(***************************************************************************)
EXTENDS Integers, Sequences, FiniteSets, TLC

(***************************************************************************)
(* Characters.  A character is a token; the accented letters and the       *)
(* combining marks are named in ASCII.                                     *)
(***************************************************************************)
LowerLetters == {"a", "b", "o", "n"}
UpperLetters == {"A", "O"}
Digits == {"1", "9"}
\* combining diacritical marks, in the range U+0300..U+036F of the source
CombiningMarks == {"U0301", "U0303"}
\* precomposed letters: o-acute, O-acute, n-tilde
Precomposed == {"o_acute", "O_ACUTE", "n_tilde"}
Punctuation == {" ", "-", "?", "inv_q", "/", "_"}
Char == LowerLetters \cup UpperLetters \cup Digits \cup CombiningMarks
          \cup Precomposed \cup Punctuation

\* String.prototype.toLowerCase, on one character
LowerChar(c) ==
  CASE c = "A" -> "a"
    [] c = "O" -> "o"
    [] c = "O_ACUTE" -> "o_acute"
    [] OTHER -> c

\* String.prototype.normalize('NFD'), on one character: canonical decomposition
NFDChar(c) ==
  CASE c = "o_acute" -> <<"o", "U0301">>
    [] c = "O_ACUTE" -> <<"O", "U0301">>
    [] c = "n_tilde" -> <<"n", "U0303">>
    [] OTHER -> <<c>>

ToLowerCase(s) == [i \in 1..Len(s) |-> LowerChar(s[i])]

RECURSIVE NormalizeNFD(_)
NormalizeNFD(s) ==
  IF s = <<>> THEN <<>> ELSE NFDChar(Head(s)) \o NormalizeNFD(Tail(s))

IsMark(c) == c \in CombiningMarks

\* .replace(/[U+0300-U+036F]/g, '')
StripMarks(s) == SelectSeq(s, LAMBDA c : ~IsMark(c))

\* the class a-z0-9 of the source
IsAlnum(c) == c \in LowerLetters \cup Digits

RECURSIVE CollapseFrom(_, _)
\* .replace(/[^a-z0-9]+/g, '-') from position i on: every maximal run of
\* characters outside a-z0-9 becomes one hyphen
CollapseFrom(s, i) ==
  IF i > Len(s) THEN <<>>
  ELSE IF IsAlnum(s[i]) THEN <<s[i]>> \o CollapseFrom(s, i + 1)
  ELSE IF i > 1 /\ ~IsAlnum(s[i - 1]) THEN CollapseFrom(s, i + 1)
  ELSE <<"-">> \o CollapseFrom(s, i + 1)

CollapseNonAlnum(s) == CollapseFrom(s, 1)

\* .replace(/(^-|-$)/g, ''): one hyphen at the start and one at the end
TrimHyphens(s) ==
  LET a == IF Len(s) > 0 /\ s[1] = "-" THEN Tail(s) ELSE s
  IN  IF Len(a) > 0 /\ a[Len(a)] = "-" THEN SubSeq(a, 1, Len(a) - 1) ELSE a

\* the chain of getSlug (and of slugify) on a title
slugify(text) ==
  TrimHyphens(CollapseNonAlnum(StripMarks(NormalizeNFD(ToLowerCase(text)))))

RECURSIVE JoinRuns(_)
\* richTextToPlain: rt.map(t => t.plain_text).join('')
JoinRuns(rt) == IF rt = <<>> THEN <<>> ELSE Head(rt) \o JoinRuns(Tail(rt))

richTextToPlain(rt) == JoinRuns(rt)

(***************************************************************************)
(* Page objects.  properties is a function from the property names the     *)
(* page carries to typed values; a name outside its domain is undefined.   *)
(***************************************************************************)
PropVal(t, runs, str, num) == [type |-> t, runs |-> runs, str |-> str, num |-> num]

UndefinedProp == PropVal("undefined", <<>>, "", 0)

TitleProp(runs) == PropVal("title", runs, "", 0)
RichTextProp(runs) == PropVal("rich_text", runs, "", 0)
\* a select with no option chosen (select: null) has str = ""
SelectProp(name) == PropVal("select", <<>>, name, 0)
\* a date with date: null has str = ""
DateProp(start) == PropVal("date", <<>>, start, 0)
\* a number with number: null has num = 0 and str = "null"
NumberProp(n) == PropVal("number", <<>>, "", n)
NullNumberProp == PropVal("number", <<>>, "null", 0)

\* a property of another type that carries an option name
MultiSelectProp(name) == PropVal("multi_select", <<>>, name, 0)

NoCover == [type |-> "none", url |-> ""]
NoIcon == [type |-> "none", emoji |-> <<>>, url |-> ""]

prop(page, name) ==
  IF name \in DOMAIN page.properties THEN page.properties[name] ELSE UndefinedProp

getTitle(page, name) ==
  LET p == prop(page, name)
  IN  IF p.type = "title" THEN richTextToPlain(p.runs) ELSE <<>>

getRichText(page, name) ==
  LET p == prop(page, name)
  IN  IF p.type = "rich_text" THEN richTextToPlain(p.runs) ELSE <<>>

\* the option name is returned whatever the type of the property
getSelectAnyType(page, name) == prop(page, name).str

getSelect(page, name) ==
  LET p == prop(page, name)
  IN  IF p.type = "select" THEN p.str ELSE ""

getDate(page, name) ==
  LET p == prop(page, name)
  IN  IF p.type = "date" THEN p.str ELSE ""

getNumber(page, name) ==
  LET p == prop(page, name)
  IN  IF p.type = "number" THEN (IF p.str = "null" THEN 0 ELSE p.num) ELSE 0

getCover(page) ==
  IF page.cover.type = "none" THEN ""
  ELSE IF page.cover.type = "external" THEN page.cover.url
  ELSE IF page.cover.type = "file" THEN page.cover.url
  ELSE ""

\* the icon as a character sequence: the emoji, or the url as one token
getIcon(page) ==
  IF page.icon.type = "none" THEN <<>>
  ELSE IF page.icon.type = "emoji" THEN page.icon.emoji
  ELSE IF page.icon.type = "external" THEN <<page.icon.url>>
  ELSE IF page.icon.type = "file" THEN <<page.icon.url>>
  ELSE <<>>

\* a || b on strings: the empty string is falsy
OrElse(a, b) == IF a # <<>> THEN a ELSE b
OrElseStr(a, b) == IF a # "" THEN a ELSE b

\* the title is preferred to the Slug property
getSlugTitleFirst(page) ==
  LET slugProp == getRichText(page, "Slug")
      title == OrElse(getTitle(page, "Name"),
                      OrElse(getTitle(page, "Titulo"), getTitle(page, "Title")))
  IN  IF title # <<>> THEN slugify(title) ELSE slugProp

getSlug(page) ==
  LET slugProp == getRichText(page, "Slug")
      title == OrElse(getTitle(page, "Name"),
                      OrElse(getTitle(page, "Titulo"), getTitle(page, "Title")))
  IN  IF slugProp # <<>> THEN slugProp ELSE slugify(title)

(***************************************************************************)
(* Bounds of the model and constants of the program.                       *)
(***************************************************************************)
\* longest string given to getSlug
MaxStrLen == 3
\* most objects a remote data source holds in the pagination runs
MaxN == 250
\* most results the remote serves per page in the loader runs
ServerCap == 2
\* clock ticks the loader runs may take
MaxTicks == 2
\* clock ticks the cache runs may take
MaxCacheTicks == 7
\* build cycles of the blog loader
MaxRuns == 2
\* build cycles of the lessons loader
MaxLessonRuns == 1
\* edits of the remote dataset
MaxEdits == 1

\* page_size of every remote request
PageSize == 100
CACHE_TTL == 1000 * 60 * 5
MsPerMinute == 1000 * 60
MsPerDay == 1000 * 60 * 60 * 24

(***************************************************************************)
(* The remote data sources: sample page objects and datasets.              *)
(***************************************************************************)
Props(slug, nameKey, title, estado, fecha, orden, categoria) ==
  (IF slug.type = "undefined" THEN <<>> ELSE ("Slug" :> slug))
    @@ (nameKey :> TitleProp(title))
    @@ ("Estado" :> SelectProp(estado))
    @@ (IF fecha = "" THEN <<>> ELSE ("Fecha" :> DateProp(fecha)))
    @@ ("Orden" :> NumberProp(orden))
    @@ (IF categoria = "" THEN <<>>
        ELSE ("Categoria" :> SelectProp(categoria)) @@ ("Modulo" :> SelectProp(categoria)))

PageObj(id, props) ==
  [id |-> id, full |-> TRUE, properties |-> props, cover |-> NoCover, icon |-> NoIcon]

\* a partial page object: the response carries no properties
PartialObj(id) ==
  [id |-> id, full |-> FALSE, properties |-> ("Estado" :> SelectProp("Publicado")),
   cover |-> NoCover, icon |-> NoIcon]

RecA == PageObj(1, Props(RichTextProp(<<<<"a">>>>), "Name", <<<<"A", "?">>>>,
                           "Publicado", "2024-03-01", 3, "Recursos"))
RecB == PageObj(2, Props(UndefinedProp, "Name", <<<<"inv_q", "A">>, <<" ", "o_acute">>>>,
                           "Publicado", "", 1, ""))
\* Slug, Categoria and Modulo are of another type than the loaders read
RecC == PageObj(3, ("Categoria" :> MultiSelectProp("Recursos"))
                     @@ ("Modulo" :> MultiSelectProp("Recursos"))
                     @@ Props(SelectProp("c"), "Titulo", <<<<"n_tilde", "1">>>>,
                              "Publicado", "2024-01-01", 2, ""))
RecD == PageObj(4, Props(UndefinedProp, "Title", <<<<"O", "_", "9">>>>,
                           "Publicado", "2024-02-01", 1, "Recursos"))
\* a draft: the Publicado filter leaves it out
RecE == PageObj(5, Props(UndefinedProp, "Name", <<<<"b">>>>,
                           "Borrador", "2024-02-01", 4, ""))
\* record A after an edit of its title and of its date
RecA2 == PageObj(1, Props(RichTextProp(<<<<"a">>>>), "Name", <<<<"A", "9">>>>,
                            "Publicado", "", 3, "Recursos"))

\* a record whose title gives the slug of A's explicit Slug
RecG == PageObj(8, Props(UndefinedProp, "Name", <<<<"?", "A">>>>,
                           "Publicado", "2024-01-01", 5, ""))
\* a record whose title gives the slug of D's title
RecF == PageObj(7, Props(UndefinedProp, "Titulo", <<<<"o_acute", " ", "9">>>>,
                           "Publicado", "2024-03-01", 2, "Tutorial"))

DatasetV1 == <<RecE, RecB, PartialObj(6), RecA, RecC>>
DatasetV2 == <<RecD, RecA2, RecG>>
DatasetB == <<RecD, RecC, RecF>>
\* a data source without a published record
DatasetDrafts == <<RecE>>

\* the i-th page of a large data source
BigObj(i) ==
  PageObj(100 + i, Props(UndefinedProp, "Name", <<<<"n">>>>, "Publicado",
                            IF i % 2 = 0 THEN "2024-01-01" ELSE "2024-02-01", 1, ""))

BigDataset(n) == [i \in 1..n |-> BigObj(i)]

DataSources == {"dsA", "dsB"}

(***************************************************************************)
(* The remote API as the code uses it: dataSources.query with filter,      *)
(* sorts, start_cursor and page_size; has_more and next_cursor.            *)
(***************************************************************************)
PublishedFilter == [property |-> "Estado", equals |-> "Publicado"]
SortFechaDesc == [property |-> "Fecha", direction |-> "descending"]
SortOrdenAsc == [property |-> "Orden", direction |-> "ascending"]

DateRank(d) ==
  CASE d = "2024-01-01" -> 1
    [] d = "2024-02-01" -> 2
    [] d = "2024-03-01" -> 3
    [] OTHER -> 0

SortKey(page, property) ==
  IF property = "Fecha" THEN DateRank(getDate(page, "Fecha")) ELSE getNumber(page, property)

RECURSIVE SortByKeys(_, _, _)
\* the objects of seq whose key is in keys, by ascending (descending) key,
\* objects of equal key in the order of seq
SortByKeys(seq, sort, keys) ==
  IF keys = {} THEN <<>>
  ELSE LET k == IF sort.direction = "ascending"
                THEN CHOOSE x \in keys : \A y \in keys : x <= y
                ELSE CHOOSE x \in keys : \A y \in keys : x >= y
       IN  SelectSeq(seq, LAMBDA p : SortKey(p, sort.property) = k)
             \o SortByKeys(seq, sort, keys \ {k})

RemoteSorted(seq, sort) ==
  SortByKeys(seq, sort, {SortKey(seq[i], sort.property) : i \in 1..Len(seq)})

RemoteMatches(page, filter) == getSelect(page, filter.property) = filter.equals

\* everything the data source holds that the query selects, in the order asked
RemoteQuery(dataset, filter, sort) ==
  RemoteSorted(SelectSeq(dataset, LAMBDA p : RemoteMatches(p, filter)), sort)

Min(a, b) == IF a <= b THEN a ELSE b
Max(a, b) == IF a >= b THEN a ELSE b

\* one page: start_cursor 0 is the absent cursor, a cursor k says k were served
RemotePage(all, cursor, pageSize, cap) ==
  LET n == Max(0, Min(Min(pageSize, cap), Len(all) - cursor))
      hasMore == cursor + n < Len(all)
  IN  [results |-> SubSeq(all, cursor + 1, cursor + n),
       has_more |-> hasMore,
       next_cursor |-> IF hasMore THEN cursor + n ELSE 0]

(***************************************************************************)
(* Disk cache.                                                             *)
(***************************************************************************)
NoFile == [exists |-> FALSE, json |-> [text |-> <<>>], mtimeMs |-> 0]

isDev(e) ==
  IF e.DEV # "undefined" THEN e.DEV = "true" ELSE e.NODE_ENV # "production"

JSONStringify(data) == [text |-> data]
JSONParse(file) == file.text

\* an entry is stale as soon as its age reaches the window
cacheGetStaleAtTTL(files, key, e, t) ==
  IF ~files[key].exists THEN [hit |-> FALSE, data |-> <<>>]
  ELSE IF isDev(e) /\ t - files[key].mtimeMs >= CACHE_TTL THEN [hit |-> FALSE, data |-> <<>>]
  ELSE [hit |-> TRUE, data |-> JSONParse(files[key].json)]

\* cacheGet: the value returned (hit) or null (hit = FALSE)
cacheGet(files, key, e, t) ==
  IF ~files[key].exists THEN [hit |-> FALSE, data |-> <<>>]
  ELSE IF isDev(e) /\ t - files[key].mtimeMs > CACHE_TTL THEN [hit |-> FALSE, data |-> <<>>]
  ELSE [hit |-> TRUE, data |-> JSONParse(files[key].json)]

\* a file that exists is left as it is
cacheSetOnce(files, key, data, t) ==
  IF files[key].exists THEN files
  ELSE [files EXCEPT ![key] = [exists |-> TRUE, json |-> JSONStringify(data), mtimeMs |-> t]]

\* cacheSet: the files after fs.writeFileSync at time t
cacheSet(files, key, data, t) ==
  [files EXCEPT ![key] = [exists |-> TRUE, json |-> JSONStringify(data), mtimeMs |-> t]]

\* an empty list counts as no entry
IsTruthyNonEmpty(cached) == cached.hit /\ cached.data # <<>>

\* if (cached): null is falsy, and every list, the empty one too, is truthy
IsTruthy(cached) == cached.hit

DbKey(dataSourceId) == <<"db", dataSourceId>>
BlocksKey(blockId) == <<"blocks", blockId>>


(***************************************************************************)
(* downloadImage: the names it derives.  A url and a logical name are      *)
(* sequences of one-character tokens; a file of IMG_DIR is identified by   *)
(* its safeName.                                                           *)
(***************************************************************************)
DotPng == <<".", "p", "n", "g">>
DotGif == <<".", "g", "i", "f">>
DotJpg == <<".", "j", "p", "g">>

\* String.prototype.includes
Includes(s, sub) ==
  \E i \in 1..(Len(s) - Len(sub) + 1) : SubSeq(s, i, i + Len(sub) - 1) = sub

\* url.includes('.png') ? '.png' : url.includes('.gif') ? '.gif' : '.jpg'
ImageExt(url) ==
  IF Includes(url, DotPng) THEN DotPng
  ELSE IF Includes(url, DotGif) THEN DotGif
  ELSE DotJpg

\* the class a-z0-9- of the source under the flag i
IsSafeChar(c) == c \in LowerLetters \cup UpperLetters \cup Digits \cup {"-"}

\* filename.replace(/[^a-z0-9-]/gi, '-') + ext
SafeName(url, filename) ==
  [i \in 1..Len(filename) |-> IF IsSafeChar(filename[i]) THEN filename[i] ELSE "-"]
    \o ImageExt(url)

\* `/images/notion/${safeName}`
PublicPath(safeName) == <<"/images/notion/">> \o safeName

\* the urls and the logical names the calls are made with
UrlPng == <<"/", "a", ".", "p", "n", "g", "?", "1">>
UrlGif == <<"/", "a", ".", "g", "i", "f">>
UrlGifPng == <<"/", ".", "g", "i", "f", "/", "b", ".", "p", "n", "g">>
UrlBare == <<"/", "a", "b">>
ImageArgs ==
  {<<UrlPng, <<"a", " ", "b">>>>, <<UrlPng, <<"a", "-", "b">>>>,
   <<UrlGifPng, <<"a", " ", "b">>>>, <<UrlGif, <<"a", " ", "b">>>>,
   <<UrlBare, <<"A", "1">>>>, <<UrlBare, <<"o_acute", "/">>>>}

\* the files that IMG_DIR can hold
ImageFiles == {SafeName(a[1], a[2]) : a \in ImageArgs}

\* the most calls of downloadImage in one behaviour
MaxImageCalls == 2

\* a call of downloadImage that has not been made; alone records that no
\* other call for the same file was in progress at any time during the call
NoCall ==
  [pc |-> "idle", url |-> <<>>, filename |-> <<>>, safeName |-> <<>>,
   fetched |-> FALSE, wrote |-> FALSE, threw |-> FALSE, alone |-> TRUE,
   existed |-> FALSE, ret |-> <<>>]

NoImages ==
  [dir |-> FALSE, files |-> {}, calls |-> [c \in 1..MaxImageCalls |-> NoCall]]

(***************************************************************************)
(* State.                                                                  *)
(***************************************************************************)
VARIABLES
  env,        \* NOTION_TOKEN, NOTION_BLOG_DB, NOTION_LESSONS_DB, DEV, NODE_ENV
  now,        \* Date.now(), in milliseconds
  remote,     \* what each remote data source holds
  serverCap,  \* the most results the remote puts in one page
  edits,      \* edits of the remote so far
  notion,     \* _notion: "null" or "client"
  cacheDir,   \* whether CACHE_DIR exists
  cache,      \* the files of CACHE_DIR, by key
  store,      \* the store of each collection: slug -> data
  lp,         \* each loader's load(): its position and locals
  hist,       \* history of each loader's runs
  slugCall,   \* a call of getSlug: its argument, position and result
  cacheCall,  \* the last call of cacheGet: its key, time and result
  tree,       \* the remote block tree: the children each container lists
  bp,         \* a call of getBlocks: its position and its stack of activations
  img         \* IMG_DIR and the calls of downloadImage

vars == <<env, now, remote, serverCap, edits, notion, cacheDir, cache, store, lp,
          hist, slugCall, cacheCall, tree, bp, img>>

Loaders == {"blog", "lessons"}

CacheKeys == {DbKey(d) : d \in DataSources} \cup {<<"k", i>> : i \in 1..2}
                  \cup {BlocksKey(b) : b \in 0..9}

\* new Date().toISOString().split('T')[0] at time t
IsoDate(t) ==
  CASE t \div MsPerDay = 0 -> "1970-01-01"
    [] t \div MsPerDay = 1 -> "1970-01-02"
    [] OTHER -> "1970-01-03"

(***************************************************************************)
(* The collection loaders.                                                 *)
(***************************************************************************)
DbVar(L) == IF L = "blog" THEN "NOTION_BLOG_DB" ELSE "NOTION_LESSONS_DB"

\* the query of getBlogPosts and of getLessons
QueryOpts(L, e) ==
  [dataSourceId |-> e[DbVar(L)],
   filter |-> PublishedFilter,
   sorts |-> IF L = "blog" THEN <<SortFechaDesc>> ELSE <<SortOrdenAsc>>]

DefaultEmoji(L) == IF L = "blog" THEN <<"memo">> ELSE <<"book">>

CoverOrUndefined(c) == IF c # "" THEN c ELSE "undefined"

\* every post is dated today, whatever its Fecha
BlogItemDatedToday(page, today) ==
  [title |-> OrElse(getTitle(page, "Name"), getTitle(page, "Titulo")),
   description |-> getRichText(page, "Descripcion"),
   publishDate |-> today,
   category |-> OrElseStr(getSelect(page, "Categoria"), "Tutorial"),
   emoji |-> OrElse(getRichText(page, "Emoji"), OrElse(getIcon(page), <<"memo">>)),
   coverImage |-> IF getCover(page) # "" THEN getCover(page) ELSE "undefined",
   notionId |-> page.id]

\* the data of the item the blog loader stores for a page; today is
\* new Date().toISOString().split('T')[0]
BlogItem(page, today) ==
  [title |-> OrElse(getTitle(page, "Name"), getTitle(page, "Titulo")),
   description |-> getRichText(page, "Descripcion"),
   publishDate |-> OrElseStr(getDate(page, "Fecha"), today),
   category |-> OrElseStr(getSelect(page, "Categoria"), "Tutorial"),
   emoji |-> OrElse(getRichText(page, "Emoji"), OrElse(getIcon(page), DefaultEmoji("blog"))),
   coverImage |-> CoverOrUndefined(getCover(page)),
   notionId |-> page.id]

\* the data of the item the lessons loader stores for a page
LessonItem(page) ==
  [title |-> OrElse(getTitle(page, "Name"), getTitle(page, "Titulo")),
   description |-> getRichText(page, "Descripcion"),
   order |-> getNumber(page, "Orden"),
   module |-> OrElseStr(getSelect(page, "Modulo"), "Fundamentos"),
   emoji |-> OrElse(getRichText(page, "Emoji"), OrElse(getIcon(page), DefaultEmoji("lessons"))),
   coverImage |-> CoverOrUndefined(getCover(page)),
   notionId |-> page.id]

Item(L, page, today) == IF L = "blog" THEN BlogItem(page, today) ELSE LessonItem(page)

EmptyStore == [k \in {} |-> 0]

\* the store is left as it is
StoreClearNoop(m) == m

\* store.clear()
StoreClear(m) == EmptyStore

\* an item already stored under the id is kept
StoreSetKeepFirst(m, id, data) == m @@ (id :> data)

\* store.set({ id, data })
StoreSet(m, id, data) == (id :> data) @@ m

RECURSIVE InsertRange(_, _, _, _, _, _)
\* the for loop of load() over pages[lo..hi]: one store.set per page, in the
\* order of pages (the range is halved to keep the evaluation shallow)
InsertRange(m, L, pages, today, lo, hi) ==
  IF lo > hi THEN m
  ELSE IF lo = hi THEN StoreSet(m, getSlug(pages[lo]), Item(L, pages[lo], today))
  ELSE LET mid == (lo + hi) \div 2
           left == InsertRange(m, L, pages, today, lo, mid)
       IN  \* the first half is stored before the second half is begun
           IF DOMAIN left # {} THEN InsertRange(left, L, pages, today, mid + 1, hi)
           ELSE left

InsertAll(m, L, pages, today) == InsertRange(m, L, pages, today, 1, Len(pages))

\* the loop stops before the last page
RepopulateDropsLast(m, L, pages, today) ==
  InsertAll(StoreClear(m), L, SubSeq(pages, 1, Len(pages) - 1), today)

\* the part of load() after the await: store.clear(), then the loop
Repopulate(m, L, pages, today) == InsertAll(StoreClear(m), L, pages, today)

\* what a collection holds from an earlier build
StaleItem(L) ==
  IF L = "blog"
  THEN [title |-> <<"o">>, description |-> <<>>, publishDate |-> "2024-01-01",
        category |-> "Tutorial", emoji |-> <<"memo">>, coverImage |-> "undefined",
        notionId |-> 0]
  ELSE [title |-> <<"o">>, description |-> <<>>, order |-> 0, module |-> "Fundamentos",
        emoji |-> <<"book">>, coverImage |-> "undefined", notionId |-> 0]

StaleStore(L) == (<<"o", "l", "d">> :> StaleItem(L))

\* has_more and next_cursor of the last response (next_cursor 0 is null)
NoResponse == [has_more |-> FALSE, next_cursor |-> 0]

IdleLoader ==
  [pc |-> "idle", dataSourceId |-> "", pages |-> <<>>, cursor |-> 0, ret |-> <<>>,
   queried |-> FALSE, hit |-> FALSE, err |-> "", runs |-> 0, requests |-> 0,
   responses |-> 0, inserted |-> 0, last |-> NoResponse]

\* history of a loader's runs: the store when load() was called, whether the
\* remote was edited while the query ran, the date on which the last and the
\* previous load() finished, and whether this run was served from the cache
\* the pages the previous, completed run returned
NoHist ==
  [before |-> EmptyStore, edited |-> FALSE, finishDay |-> "", prevDay |-> "",
   warmSame |-> FALSE]

\* as each request is sent, the request for the page after it is sent too
SendRequestAndNext(sent) == sent + 2

\* await getClient()...: one request is sent, and the caller is suspended
SendRequest(sent) == sent + 1

\* getClient(): the client is built on first use, and the token read then
ClientThrows(n, e) == n = "null" /\ ~e.NOTION_TOKEN

\* a client is built at every call after the first as well
getClientAgain(n) == IF n = "null" THEN "client" ELSE "client2"

getClient(n) == IF n = "null" THEN "client" ELSE n

\* a missing database identifier is a fatal error
NoDbThrows == [pc |-> "failed", err |-> "database identifier is not set"]

\* getBlogPosts / getLessons without a database identifier: if (!dbId) return []
NoDbOutcome == [pc |-> "resolved", err |-> ""]

\* the pages of one response that are page objects: 'properties' in result
PagesOf(results) == SelectSeq(results, LAMBDA r : r.full)

\* the pages in hand are saved after every response
SaveEveryPage(files, key, pages, cursor, t) == cacheSet(files, key, pages, t)

\* cacheSet(cacheKey, pages) comes after the do ... while (cursor) loop
SaveWhenDone(files, key, pages, cursor, t) ==
  IF cursor # 0 THEN files ELSE cacheSet(files, key, pages, t)

\* the continue-test is on next_cursor alone
NextCursorAnyway(response) == response.next_cursor

\* the loop stops while the remote still reports more pages
NextCursorInverted(response) == IF response.has_more THEN 0 ELSE response.next_cursor

\* cursor = response.has_more ? (response.next_cursor ?? undefined) : undefined
NextCursor(response) == IF response.has_more THEN response.next_cursor ELSE 0

\* load() up to its first suspension: getBlogPosts / getLessons, and in
\* queryDatabase the cache lookup and the first request
LoadStart(L) ==
  LET opts == QueryOpts(L, env)
      cached == cacheGet(cache, DbKey(opts.dataSourceId), env, now)
      begun == [lp[L] EXCEPT !.dataSourceId = opts.dataSourceId, !.pages = <<>>,
                             !.cursor = 0, !.ret = <<>>, !.queried = FALSE,
                             !.hit = FALSE, !.err = "", !.runs = @ + 1, !.requests = 0,
                             !.responses = 0, !.inserted = 0, !.last = NoResponse]
  IN  /\ lp[L].pc \in {"idle", "done", "failed"}
      /\ lp[L].runs < (IF L = "blog" THEN MaxRuns ELSE MaxLessonRuns)
      /\ hist' = [hist EXCEPT ![L] =
                    [@ EXCEPT !.before = store[L], !.edited = FALSE,
                              !.prevDay = hist[L].finishDay,
                              !.warmSame = /\ lp[L].pc = "done"
                                           /\ opts.dataSourceId # ""
                                           /\ cached.hit
                                           /\ cached.data = lp[L].ret]]
      /\ IF opts.dataSourceId = ""
         THEN \* if (!dbId) return []
              /\ lp' = [lp EXCEPT ![L] = [begun EXCEPT !.pc = NoDbOutcome.pc,
                                                       !.err = NoDbOutcome.err]]
              /\ UNCHANGED <<notion, cacheDir, cache, tree, bp>>
         ELSE /\ cacheDir' = TRUE
              /\ IF IsTruthy(cached)
                 THEN /\ lp' = [lp EXCEPT ![L] = [begun EXCEPT !.pc = "resolved",
                                   !.queried = TRUE, !.hit = TRUE, !.ret = cached.data]]
                      /\ UNCHANGED <<notion, cache, tree, bp>>
                 ELSE IF ClientThrows(notion, env)
                 THEN /\ lp' = [lp EXCEPT ![L] = [begun EXCEPT !.pc = "failed",
                                   !.queried = TRUE,
                                   !.err = "NOTION_TOKEN is not set in .env"]]
                      /\ UNCHANGED <<notion, cache, tree, bp>>
                 ELSE /\ notion' = getClient(notion)
                      /\ lp' = [lp EXCEPT ![L] = [begun EXCEPT !.pc = "awaitPage",
                                   !.queried = TRUE, !.requests = SendRequest(0)]]
                      /\ UNCHANGED cache
      /\ UNCHANGED <<env, img, now, remote, serverCap, edits, store, slugCall, cacheCall, tree, bp>>

\* queryDatabase from a response in hand: the rest of the loop body, and
\* either the next request or cacheSet and the return
Receive(L, response) ==
  LET pages == lp[L].pages \o PagesOf(response.results)
      cursor == NextCursor(response)
      seen == [lp EXCEPT ![L] = [@ EXCEPT !.last =
                 [has_more |-> response.has_more, next_cursor |-> response.next_cursor]]]
  IN  /\ lp[L].pc = "awaitPage"
      /\ cache' = SaveWhenDone(cache, DbKey(lp[L].dataSourceId), pages, cursor, now)
      /\ IF cursor # 0
         THEN \* the next request: getClient() again, _notion being set by now
              /\ notion' = getClient(notion)
              /\ lp' = [seen EXCEPT ![L] = [@ EXCEPT !.pages = pages, !.cursor = cursor,
                                                     !.requests = SendRequest(@),
                                                     !.responses = @ + 1]]
         ELSE /\ lp' = [seen EXCEPT ![L] = [@ EXCEPT !.pages = pages, !.cursor = 0,
                                                   !.ret = pages, !.pc = "resolved",
                                                   !.responses = @ + 1]]
              /\ UNCHANGED notion
      /\ UNCHANGED <<env, img, now, remote, serverCap, edits, cacheDir, store, hist,
                     slugCall, cacheCall, tree, bp>>

\* the remote answers the outstanding request of queryDatabase with the
\* page of the query's answer that the cursor asks for
PageArrives(L) ==
  LET opts == QueryOpts(L, env)
      all == RemoteQuery(remote[lp[L].dataSourceId], opts.filter, opts.sorts[1])
  IN  Receive(L, RemotePage(all, lp[L].cursor, PageSize, serverCap))

\* the outstanding request fails (network, auth, rate limit): the rejection
\* leaves queryDatabase and load()
PageFails(L) ==
  /\ lp[L].pc = "awaitPage"
  /\ lp' = [lp EXCEPT ![L] = [@ EXCEPT !.pc = "failed", !.err = "remote",
                                       !.responses = @ + 1]]
  /\ UNCHANGED <<env, img, now, remote, serverCap, edits, notion, cacheDir, cache, store,
                 hist, slugCall, cacheCall, tree, bp>>

\* load() after await getBlogPosts() / getLessons(): clear, then insert
LoadFinish(L) ==
  /\ lp[L].pc = "resolved"
  /\ store' = [store EXCEPT ![L] = Repopulate(store[L], L, lp[L].ret, IsoDate(now))]
  /\ lp' = [lp EXCEPT ![L] = [@ EXCEPT !.pc = "done", !.inserted = Len(lp[L].ret)]]
  /\ hist' = [hist EXCEPT ![L] = [@ EXCEPT !.finishDay = IsoDate(now)]]
  /\ UNCHANGED <<env, img, now, remote, serverCap, edits, notion, cacheDir, cache,
                 slugCall, cacheCall, tree, bp>>


(***************************************************************************)
(* The environment: the clock and the owner of the remote content.         *)
(***************************************************************************)
Tick(d, last) ==
  /\ now + d <= last
  /\ now' = now + d
  /\ UNCHANGED <<env, img, remote, serverCap, edits, notion, cacheDir, cache, store, lp,
                 hist, slugCall, cacheCall, tree, bp>>

Versions(ds) == IF ds = "dsA" THEN {DatasetV1, DatasetV2} ELSE {DatasetB}

InFlight(L) == lp[L].pc \in {"awaitPage", "resolved"}

RemoteEdit(ds) ==
  /\ edits < MaxEdits
  /\ \E d \in Versions(ds) \ {remote[ds]} : remote' = [remote EXCEPT ![ds] = d]
  /\ edits' = edits + 1
  /\ hist' = [L \in Loaders |->
                [hist[L] EXCEPT !.edited = @ \/ InFlight(L)]]
  /\ UNCHANGED <<env, img, now, serverCap, notion, cacheDir, cache, store, lp,
                 slugCall, cacheCall, tree, bp>>

(***************************************************************************)
(* The remote block tree, and getBlocks at rest.                           *)
(***************************************************************************)
NoChildren == [present |-> FALSE, list |-> <<>>]

\* a block as blocks.children.list serves it; typed is 'type' in block
Block(id, hasChildren) ==
  [id |-> id, has_children |-> hasChildren, typed |-> TRUE, children |-> NoChildren]

PartialBlock(id) ==
  [id |-> id, has_children |-> FALSE, typed |-> FALSE, children |-> NoChildren]

BlockIds == 0..9

\* page 0 lists blocks 1, 2 and a partial block; 1 lists 3 and 4; 3 lists 6:
\* depth three.  Block 4 has children of which none is a full block.
TreeV1 ==
  [b \in BlockIds |->
     CASE b = 0 -> <<Block(1, TRUE), Block(2, FALSE), PartialBlock(5)>>
       [] b = 1 -> <<Block(3, TRUE), Block(4, TRUE)>>
       [] b = 3 -> <<Block(6, FALSE)>>
       [] b = 4 -> <<PartialBlock(8)>>
       [] OTHER -> <<>>]

\* the tree after an edit: 1 moves behind 2, 3 loses its child, 7 is new
TreeV2 ==
  [b \in BlockIds |->
     CASE b = 0 -> <<Block(2, FALSE), Block(1, TRUE)>>
       [] b = 1 -> <<Block(7, TRUE), Block(3, FALSE)>>
       [] b = 7 -> <<Block(9, FALSE)>>
       [] OTHER -> <<>>]

IdleBlocks ==
  [pc |-> "idle", root |-> 0, stack |-> <<>>, ret |-> <<>>, hit |-> FALSE, err |-> "",
   calls |-> 0, requests |-> 0, sent |-> 0, log |-> <<>>]

(***************************************************************************)
(* Specification of the two loaders running build cycles.                  *)
(***************************************************************************)
NoSlugCall == [pc |-> "none", page |-> PageObj(0, <<>>), ret |-> <<>>]
TestKeys == {<<"k", i>> : i \in 1..2}
TestValues == {<<>>, <<7>>}
\* replaced: the last cacheSet of the key found another value under it
NeverSet == [set |-> FALSE, data |-> <<>>, at |-> 0, replaced |-> FALSE]
\* the last cacheGet (key, time, result) and, per key, the last cacheSet
NoCacheCall ==
  [pc |-> "none", key |-> <<"k", 1>>, at |-> 0, hit |-> FALSE, data |-> <<>>,
   written |-> [k \in TestKeys |-> NeverSet]]

CoarseTick == 3 * MsPerMinute
StartMs == MsPerDay - CoarseTick

Envs ==
  [NOTION_TOKEN : BOOLEAN, NOTION_BLOG_DB : {"", "dsA"},
   NOTION_LESSONS_DB : {"dsA", "dsB"}, DEV : {"true", "false"},
   NODE_ENV : {"development"}]

Init ==
  /\ env \in Envs
  /\ now = StartMs
  /\ remote = [ds \in DataSources |-> IF ds = "dsA" THEN DatasetV1 ELSE DatasetB]
  /\ serverCap = ServerCap
  /\ edits = 0
  /\ notion = "null"
  /\ cacheDir = FALSE
  /\ cache = [k \in CacheKeys |-> NoFile]
  /\ store = [L \in Loaders |-> StaleStore(L)]
  /\ lp = [L \in Loaders |-> IdleLoader]
  /\ hist = [L \in Loaders |-> NoHist]
  /\ slugCall = NoSlugCall
  /\ cacheCall = NoCacheCall
  /\ tree = TreeV1
  /\ bp = IdleBlocks
  /\ img = NoImages

Next ==
  \/ \E L \in Loaders : LoadStart(L)
  \/ \E L \in Loaders : PageArrives(L)
  \/ \E L \in Loaders : PageFails(L)
  \/ \E L \in Loaders : LoadFinish(L)
  \/ Tick(CoarseTick, StartMs + MaxTicks * CoarseTick)
  \/ \E ds \in DataSources : RemoteEdit(ds)

Spec == Init /\ [][Next]_vars


(***************************************************************************)
(* Specification of one loader against a large data source served in full  *)
(* pages of page_size results.                                             *)
(***************************************************************************)
InitPage ==
  /\ env \in [NOTION_TOKEN : BOOLEAN, NOTION_BLOG_DB : {"dsA"},
              NOTION_LESSONS_DB : {"dsB"}, DEV : {"undefined"},
              NODE_ENV : {"production"}]
  /\ now = StartMs
  /\ \E n \in 0..MaxN :
       remote = [ds \in DataSources |-> IF ds = "dsA" THEN BigDataset(n) ELSE <<>>]
  /\ serverCap = PageSize
  /\ edits = 0
  /\ notion = "null"
  /\ cacheDir = FALSE
  /\ cache = [k \in CacheKeys |-> NoFile]
  /\ store = [L \in Loaders |-> StaleStore(L)]
  /\ lp = [L \in Loaders |-> IdleLoader]
  /\ hist = [L \in Loaders |-> NoHist]
  /\ slugCall = NoSlugCall
  /\ cacheCall = NoCacheCall
  /\ tree = TreeV1
  /\ bp = IdleBlocks
  /\ img = NoImages

NextPage ==
  \/ LoadStart("blog")
  \/ PageArrives("blog")
  \/ PageFails("blog")
  \/ LoadFinish("blog")

SpecPage == InitPage /\ [][NextPage]_vars

\* queryDatabase has returned to load()
Returned(L) == lp[L].pc \in {"resolved", "done"} /\ lp[L].queried

\* C1: on a cache miss queryDatabase returns exactly the N records the remote
\* source holds (here every object is a published page object), in the order
\* the remote serves them under the query, none dropped and none duplicated,
\* for every N from 0 to MaxN, served in pages of 100.
C1_PaginationComplete ==
  \A L \in Loaders :
    (Returned(L) /\ ~lp[L].hit) =>
      LET opts == QueryOpts(L, env)
          all == RemoteQuery(remote[lp[L].dataSourceId], opts.filter, opts.sorts[1])
      IN  /\ lp[L].ret = PagesOf(all)
          /\ Len(lp[L].ret) = Len(remote[lp[L].dataSourceId])
          /\ \A i, j \in 1..Len(lp[L].ret) : i # j => lp[L].ret[i].id # lp[L].ret[j].id

\* 250 records were returned over three pages, the last one partly filled
C1_Witness ==
  /\ Returned("blog") /\ ~lp["blog"].hit
  /\ Len(lp["blog"].ret) = 250
  /\ lp["blog"].requests = 3


(***************************************************************************)
(* Properties of the loaders' build cycles.                                *)
(***************************************************************************)
SlugsOf(pages) == {getSlug(pages[i]) : i \in 1..Len(pages)}

Slug_a == <<"a">>
Slug_a_o == <<"a", "-", "o">>
Slug_n1 == <<"n", "1">>
Slug_o_9 == <<"o", "-", "9">>

\* C2: after load() completes, the keys of the store are exactly the slugs of
\* the records the query of that cycle returned, whatever the store held.
C2_StoreKeysAreSlugs ==
  \A L \in Loaders :
    lp[L].pc = "done" => DOMAIN store[L] = SlugsOf(lp[L].ret)

\* a second run over {A, D} replaces what the first run stored for {A, B, C}
C2_Witness ==
  /\ lp["blog"].pc = "done" /\ lp["blog"].runs = 2
  /\ DOMAIN hist["blog"].before = {Slug_a, Slug_a_o, Slug_n1}
  /\ DOMAIN store["blog"] = {Slug_a, Slug_o_9}

DbMissing(L) == env[DbVar(L)] = ""

\* C4 as stated: with the database identifier missing, load() ends in a fatal
\* error and the store keeps the contents it had when load() was called.
C4_MissingDbAborts ==
  \A L \in Loaders :
    (DbMissing(L) /\ lp[L].pc \in {"done", "failed"}) =>
      (lp[L].pc = "failed" /\ store[L] = hist[L].before)

\* C4 amended: with the database identifier missing, load() raises no error
\* and sends no remote request: the query yields no records and load() ends
\* with the store cleared.
C4_MissingDbEmptiesStore ==
  \A L \in Loaders :
    DbMissing(L) =>
      /\ lp[L].pc # "failed" /\ lp[L].err = "" /\ lp[L].requests = 0
      /\ lp[L].pc \in {"resolved", "done"} => lp[L].ret = <<>>
      /\ lp[L].pc = "done" => store[L] = EmptyStore

C4_Witness ==
  /\ DbMissing("blog") /\ lp["blog"].pc = "done"
  /\ hist["blog"].before = StaleStore("blog")
  /\ store["blog"] = EmptyStore

\* C5: a cycle is all or nothing.  While the query runs and when it has
\* failed (a request failed at some page, or the token is missing on a cold
\* cache) the store is what it was when load() was called, and the error is
\* recorded; when load() has completed the store holds the items of all the
\* records returned and nothing else.
C5_AllOrNothing ==
  \A L \in Loaders :
    /\ lp[L].pc \in {"awaitPage", "resolved", "failed"} => store[L] = hist[L].before
    /\ lp[L].pc = "failed" => lp[L].err # ""
    /\ lp[L].pc = "done" =>
         store[L] = InsertAll(EmptyStore, L, lp[L].ret, hist[L].finishDay)

\* the second request of a query failed and the store is untouched
C5_Witness ==
  /\ lp["blog"].pc = "failed" /\ lp["blog"].err = "remote"
  /\ lp["blog"].requests = 2 /\ Len(lp["blog"].pages) = 2
  /\ store["blog"] = StaleStore("blog")

\* what the query of loader L selects from what its data source holds now
OwnAnswer(L) ==
  LET opts == QueryOpts(L, env)
  IN  PagesOf(RemoteQuery(remote[opts.dataSourceId], opts.filter, opts.sorts[1]))

\* C6 as stated: every call of queryDatabase returns the complete set of
\* records of its source that satisfy its filter, in its requested order
\* (the remote is not edited here, so a cached answer is not out of date).
C6_QueryHonoursDescriptor ==
  \A L \in Loaders :
    (edits = 0 /\ Returned(L)) => lp[L].ret = OwnAnswer(L)

\* the item of the record with slug k in pages, if that record has no Fecha
NoFecha(pages, k) ==
  \E i \in 1..Len(pages) : getSlug(pages[i]) = k /\ getDate(pages[i], "Fecha") = ""

\* C8 as stated: a second run served from the warm cache with the pages of
\* the first leaves the store identical to what the first run left.
C8_Idempotent ==
  \A L \in Loaders :
    (lp[L].pc = "done" /\ hist[L].warmSame) => store[L] = hist[L].before

\* C8 amended: such a second run leaves the same keys and the same field
\* values, except publishDate of a blog post whose record has no Fecha: that
\* is the date of the run, and differs when the two runs are on different
\* dates.
C8_IdempotentButDefaultDate ==
  \A L \in Loaders :
    (lp[L].pc = "done" /\ hist[L].warmSame) =>
      /\ DOMAIN store[L] = DOMAIN hist[L].before
      /\ \A k \in DOMAIN store[L] :
           \/ store[L][k] = hist[L].before[k]
           \/ /\ L = "blog"
              /\ NoFecha(lp[L].ret, k)
              /\ hist[L].finishDay # hist[L].prevDay
              /\ store[L][k] = [hist[L].before[k] EXCEPT !.publishDate = hist[L].finishDay]

\* a warm second run on the next day, with a post that has a Fecha and one
\* that has none
C8_Witness ==
  /\ lp["blog"].pc = "done" /\ hist["blog"].warmSame
  /\ hist["blog"].finishDay # hist["blog"].prevDay
  /\ store["blog"][Slug_a] = hist["blog"].before[Slug_a]
  /\ store["blog"][Slug_a_o] # hist["blog"].before[Slug_a_o]

\* C10 as stated: whatever the interleaving, each loader ends with the query
\* result and the store it would have had running alone (the remote is not
\* edited here): the answer to its own query, and the items of that answer.
C10_LoadersIndependent ==
  edits = 0 =>
    \A L \in Loaders :
      lp[L].pc = "done" =>
        /\ lp[L].ret = IF DbMissing(L) THEN <<>> ELSE OwnAnswer(L)
        /\ DOMAIN store[L] = SlugsOf(IF DbMissing(L) THEN <<>> ELSE OwnAnswer(L))


\* the last position of pages whose slug is k (0 if there is none)
LastWithSlug(pages, k) ==
  CHOOSE j \in 0..Len(pages) :
    /\ j # 0 => getSlug(pages[j]) = k
    /\ \A i \in (j + 1)..Len(pages) : getSlug(pages[i]) # k

\* C11: when two records of one cycle give the same slug, the store holds,
\* after load(), one item under that slug, and its fields, notionId
\* included, are those of the record that comes later in the iteration.
C11_LastWriteWins ==
  \A L \in Loaders :
    lp[L].pc = "done" =>
      \A i \in 1..Len(lp[L].ret) :
        LET k == getSlug(lp[L].ret[i])
            last == lp[L].ret[LastWithSlug(lp[L].ret, k)]
        IN  /\ k \in DOMAIN store[L]
            /\ store[L][k].notionId = last.id
            /\ store[L][k] = Item(L, last, hist[L].finishDay)

\* the blog loader stored D, G and the edited A, whose slug is G's; the
\* lessons loader stored D, C and F, whose slug is D's
C11_Witness ==
  /\ lp["blog"].pc = "done"
  /\ Len(lp["blog"].ret) = 3
  /\ DOMAIN store["blog"] = {Slug_a, Slug_o_9}
  /\ lp["lessons"].pc = "done"
  /\ lp["lessons"].dataSourceId = "dsB"
  /\ Len(lp["lessons"].ret) = 3
  /\ DOMAIN store["lessons"] = {Slug_o_9, Slug_n1}
CategoryProp(L) == IF L = "blog" THEN "Categoria" ELSE "Modulo"
DefaultCategory(L) == IF L = "blog" THEN "Tutorial" ELSE "Fundamentos"
CategoryOf(L, data) == IF L = "blog" THEN data.category ELSE data.module

\* C15: for a record whose category property (Categoria for posts, Modulo
\* for lessons) is absent or is not of type select, load() raises no error
\* and the item it stores carries the default of its collection, Tutorial
\* for posts and Fundamentos for lessons.
C15_DefaultCategory ==
  \A L \in Loaders :
    lp[L].pc = "done" =>
      /\ lp[L].err = ""
      /\ \A i \in 1..Len(lp[L].ret) :
           LET page == lp[L].ret[i]
               k == getSlug(page)
           IN  (LastWithSlug(lp[L].ret, k) = i
                  /\ prop(page, CategoryProp(L)).type # "select")
                 => /\ k \in DOMAIN store[L]
                    /\ store[L][k].notionId = page.id
                    /\ CategoryOf(L, store[L][k]) = DefaultCategory(L)

\* both loaders stored B, which has no category property, and C, whose
\* category property is a multi-select
C15_Witness ==
  /\ \A L \in Loaders :
       /\ lp[L].pc = "done"
       /\ {Slug_a_o, Slug_n1} \subseteq DOMAIN store[L]
       /\ store[L][Slug_a_o].notionId = 2
       /\ store[L][Slug_n1].notionId = 3
  /\ store["blog"][Slug_n1].category = "Tutorial"
  /\ store["lessons"][Slug_a_o].module = "Fundamentos"


(***************************************************************************)
(* Specification of the loaders with the part of load() after the await    *)
(* taken statement by statement: store.clear(), then one store.set per     *)
(* page.  That part runs without suspension, so nothing else of the        *)
(* process runs between its statements.                                    *)
(***************************************************************************)
\* store.clear()
LoadClear(L) ==
  /\ lp[L].pc = "resolved"
  /\ store' = [store EXCEPT ![L] = StoreClear(store[L])]
  /\ lp' = [lp EXCEPT ![L] = [@ EXCEPT !.inserted = 0,
               !.pc = IF lp[L].ret = <<>> THEN "done" ELSE "inserting"]]
  /\ hist' = [hist EXCEPT ![L] = [@ EXCEPT !.finishDay = IsoDate(now)]]
  /\ UNCHANGED <<env, img, now, remote, serverCap, edits, notion, cacheDir, cache,
                 slugCall, cacheCall, tree, bp>>

\* one iteration of for (const page of pages): store.set of the next page
LoadInsert(L) ==
  LET page == lp[L].ret[lp[L].inserted + 1]
  IN  /\ lp[L].pc = "inserting"
      /\ store' = [store EXCEPT ![L] =
                     StoreSet(store[L], getSlug(page), Item(L, page, IsoDate(now)))]
      /\ lp' = [lp EXCEPT ![L] = [@ EXCEPT !.inserted = @ + 1,
                   !.pc = IF lp[L].inserted + 1 = Len(lp[L].ret) THEN "done"
                          ELSE "inserting"]]
      /\ UNCHANGED <<env, img, now, remote, serverCap, edits, notion, cacheDir, cache, hist,
                     slugCall, cacheCall, tree, bp>>

\* some load() is between its clear and its last insert
Synchronous == \E L \in Loaders : lp[L].pc = "inserting"

NextSteps ==
  \/ ~Synchronous /\ \E L \in Loaders : LoadStart(L)
  \/ ~Synchronous /\ \E L \in Loaders : PageArrives(L)
  \/ ~Synchronous /\ \E L \in Loaders : PageFails(L)
  \/ ~Synchronous /\ \E L \in Loaders : LoadClear(L)
  \/ \E L \in Loaders : LoadInsert(L)
  \/ ~Synchronous /\ Tick(CoarseTick, StartMs + MaxTicks * CoarseTick)
  \/ ~Synchronous /\ \E ds \in DataSources : RemoteEdit(ds)

\* the environments in which both loaders reach the remote, and reach it
\* again once the cache entry is stale
StepEnvs == {e \in Envs : e.NOTION_TOKEN /\ e.NOTION_BLOG_DB # "" /\ e.DEV = "true"}

InitSteps ==
  /\ env \in StepEnvs
  /\ now = StartMs
  /\ remote = [ds \in DataSources |-> IF ds = "dsA" THEN DatasetV1 ELSE DatasetB]
  /\ serverCap = ServerCap
  /\ edits = 0
  /\ notion = "null"
  /\ cacheDir = FALSE
  /\ cache = [k \in CacheKeys |-> NoFile]
  /\ store = [L \in Loaders |-> StaleStore(L)]
  /\ lp = [L \in Loaders |-> IdleLoader]
  /\ hist = [L \in Loaders |-> NoHist]
  /\ slugCall = NoSlugCall
  /\ cacheCall = NoCacheCall
  /\ tree = TreeV1
  /\ bp = IdleBlocks
  /\ img = NoImages

SpecSteps == InitSteps /\ [][NextSteps]_vars

\* the items of the current generation: those of the first n pages of the
\* result of this cycle
FromThisCycle(L, k, data) ==
  \E i \in 1..lp[L].inserted :
    /\ getSlug(lp[L].ret[i]) = k
    /\ data = Item(L, lp[L].ret[i], hist[L].finishDay)

\* C17: in every state of a load() cycle, the states between the clear and
\* the last insert included, the store holds items of one generation only:
\* until the clear it is as the cycle found it, and from the clear on every
\* item in it was inserted from a record of the result of this cycle.
C17_OneGeneration ==
  \A L \in Loaders :
    /\ lp[L].pc \in {"awaitPage", "resolved", "failed"} => store[L] = hist[L].before
    /\ lp[L].pc \in {"inserting", "done"} =>
         \A k \in DOMAIN store[L] : FromThisCycle(L, k, store[L][k])

\* the second cycle of the blog loader, over the edited data source, between
\* its first and its last insert: the store held A, B and C, and holds D only
C17_Witness ==
  /\ lp["blog"].pc = "inserting"
  /\ lp["blog"].runs = 2
  /\ lp["blog"].inserted = 1
  /\ DOMAIN hist["blog"].before = {Slug_a, Slug_a_o, Slug_n1}
  /\ DOMAIN store["blog"] = {Slug_o_9}


(***************************************************************************)
(* Specification of the disk cache on its own: cacheSet and cacheGet       *)
(* called at arbitrary times, in every build mode.                         *)
(***************************************************************************)
CacheSetCall(k, v) ==
  /\ cacheDir' = TRUE
  /\ cache' = cacheSet(cache, k, v, now)
  /\ cacheCall' = [cacheCall EXCEPT !.pc = "set",
                     !.written = [@ EXCEPT ![k] =
                                    [set |-> TRUE, data |-> v, at |-> now,
                                     replaced |-> @.set /\ @.data # v]]]
  /\ UNCHANGED <<env, img, now, remote, serverCap, edits, notion, store, lp, hist, slugCall, tree, bp>>

CacheGetCall(k) ==
  LET r == cacheGet(cache, k, env, now)
  IN  /\ cacheDir' = TRUE
      /\ cacheCall' = [cacheCall EXCEPT !.pc = "got", !.key = k, !.at = now,
                                        !.hit = r.hit, !.data = r.data]
      /\ UNCHANGED <<env, img, now, remote, serverCap, edits, notion, cache, store, lp,
                     hist, slugCall, tree, bp>>

InitCache ==
  /\ env \in [NOTION_TOKEN : {TRUE}, NOTION_BLOG_DB : {"dsA"}, NOTION_LESSONS_DB : {"dsB"},
              DEV : {"undefined", "true", "false"},
              NODE_ENV : {"production", "development"}]
  /\ now = StartMs
  /\ remote = [ds \in DataSources |-> <<>>]
  /\ serverCap = PageSize
  /\ edits = 0
  /\ notion = "null"
  /\ cacheDir = FALSE
  /\ cache = [k \in CacheKeys |-> NoFile]
  /\ store = [L \in Loaders |-> EmptyStore]
  /\ lp = [L \in Loaders |-> IdleLoader]
  /\ hist = [L \in Loaders |-> NoHist]
  /\ slugCall = NoSlugCall
  /\ cacheCall = NoCacheCall
  /\ tree = TreeV1
  /\ bp = IdleBlocks
  /\ img = NoImages

NextCache ==
  \/ \E k \in TestKeys, v \in TestValues : CacheSetCall(k, v)
  \/ \E k \in TestKeys : CacheGetCall(k)
  \/ Tick(MsPerMinute, StartMs + MaxCacheTicks * MsPerMinute)

SpecCache == InitCache /\ [][NextCache]_vars

\* interactive mode: import.meta.env.DEV if set, else NODE_ENV is not production
DevMode ==
  \/ env.DEV = "true"
  \/ env.DEV = "undefined" /\ env.NODE_ENV # "production"

\* C3: in interactive mode cacheGet serves the entry written at time T
\* unchanged while its age is within five minutes and returns absent once its
\* age exceeds five minutes; in build mode it serves the entry unchanged at
\* any age.
C3_CacheStaleness ==
  LET w == cacheCall.written[cacheCall.key]
      age == cacheCall.at - w.at
  IN  (cacheCall.pc = "got" /\ w.set) =>
        IF DevMode /\ age > 5 * MsPerMinute
        THEN ~cacheCall.hit
        ELSE cacheCall.hit /\ cacheCall.data = w.data

\* in interactive mode an entry six minutes old is absent
C3_Witness ==
  LET w == cacheCall.written[cacheCall.key]
  IN  /\ cacheCall.pc = "got" /\ w.set /\ w.data = <<7>>
      /\ DevMode
      /\ cacheCall.at - w.at = 6 * MsPerMinute
      /\ ~cacheCall.hit

\* C12: cacheGet(key) returns the value most recently passed to
\* cacheSet(key, .) while it is fresh, and absent if the key was never set;
\* cacheSet(key, v) replaces what the key held and leaves the entry of every
\* other key as it was.
C12_CacheGetSet ==
  /\ LET w == cacheCall.written[cacheCall.key]
     IN  cacheCall.pc = "got" =>
           IF ~w.set THEN ~cacheCall.hit
           ELSE IF DevMode /\ cacheCall.at - w.at > CACHE_TTL THEN ~cacheCall.hit
           ELSE cacheCall.hit /\ cacheCall.data = w.data
  /\ \A k \in TestKeys :
       LET w == cacheCall.written[k]
       IN  IF w.set
           THEN /\ cache[k].exists
                /\ JSONParse(cache[k].json) = w.data
                /\ cache[k].mtimeMs = w.at
           ELSE cache[k] = NoFile
  /\ \A k \in CacheKeys \ TestKeys : cache[k] = NoFile

\* a fresh entry read back after it replaced another value of its key,
\* with the other key holding what it was given, and a key never set absent
C12_Witness ==
  /\ cacheCall.pc = "got"
  /\ cacheCall.key = <<"k", 1>>
  /\ cacheCall.hit /\ cacheCall.data = <<7>>
  /\ cacheCall.written[<<"k", 1>>].replaced
  /\ cacheCall.written[<<"k", 2>>].set
  /\ JSONParse(cache[<<"k", 2>>].json) = <<>>
  /\ cache[<<"k", 2>>].mtimeMs < cacheCall.written[<<"k", 1>>].at


(***************************************************************************)
(* Specification of getSlug on its own: one call per page, the pages drawn *)
(* from every string up to MaxStrLen and every placement of that string.   *)
(***************************************************************************)
SlugAlphabet == {"a", "O", "1", "o_acute", "U0301", "-", " ", "inv_q"}

StringsUpTo(n) == UNION {[1..k -> SlugAlphabet] : k \in 0..n}

\* a rich text of two runs whose concatenation is s
TwoRuns(s) == IF Len(s) < 2 THEN <<s>> ELSE <<SubSeq(s, 1, 1), SubSeq(s, 2, Len(s))>>

SlugShapes == {"Name", "Titulo", "Title", "Slug", "SlugWrongType", "NameWrongType"}

SlugPage(shape, s) ==
  PageObj(1,
    CASE shape = "Name" -> ("Name" :> TitleProp(<<s>>))
      [] shape = "Titulo" -> ("Titulo" :> TitleProp(TwoRuns(s)))
      [] shape = "Title" -> ("Title" :> TitleProp(<<s>>))
      [] shape = "Slug" ->
           ("Slug" :> RichTextProp(TwoRuns(s))) @@ ("Name" :> TitleProp(<<<<"O", " ", "1">>>>))
      [] shape = "SlugWrongType" ->
           ("Slug" :> SelectProp("x")) @@ ("Name" :> TitleProp(<<s>>))
      [] OTHER ->
           ("Name" :> RichTextProp(<<s>>)) @@ ("Title" :> TitleProp(<<<<"O", " ", "1">>>>)))

GetSlugCall ==
  /\ slugCall.pc = "called"
  /\ slugCall' = [slugCall EXCEPT !.pc = "returned", !.ret = getSlug(slugCall.page)]
  /\ UNCHANGED <<env, img, now, remote, serverCap, edits, notion, cacheDir, cache, store, lp,
                 hist, cacheCall, tree, bp>>

InitSlug ==
  /\ env \in [NOTION_TOKEN : {TRUE}, NOTION_BLOG_DB : {"dsA"}, NOTION_LESSONS_DB : {"dsB"},
              DEV : {"false"}, NODE_ENV : {"production"}]
  /\ now = StartMs
  /\ remote = [ds \in DataSources |-> <<>>]
  /\ serverCap = PageSize
  /\ edits = 0
  /\ notion = "null"
  /\ cacheDir = FALSE
  /\ cache = [k \in CacheKeys |-> NoFile]
  /\ store = [L \in Loaders |-> EmptyStore]
  /\ lp = [L \in Loaders |-> IdleLoader]
  /\ hist = [L \in Loaders |-> NoHist]
  /\ \E shape \in SlugShapes, s \in StringsUpTo(MaxStrLen) :
       slugCall = [pc |-> "called", page |-> SlugPage(shape, s), ret |-> <<>>]
  /\ cacheCall = NoCacheCall
  /\ tree = TreeV1
  /\ bp = IdleBlocks
  /\ img = NoImages

NextSlug == GetSlugCall

SpecSlug == InitSlug /\ [][NextSlug]_vars

UrlSafeChar(c) == c \in LowerLetters \cup Digits \cup {"-"}

\* C9 as stated: the slug getSlug returns, under which the loader stores the
\* item, is non-empty and made of lowercase letters, digits and hyphens only,
\* for every record.
C9_SlugNonEmptyUrlSafe ==
  slugCall.pc = "returned" =>
    /\ slugCall.ret # <<>>
    /\ \A i \in 1..Len(slugCall.ret) : UrlSafeChar(slugCall.ret[i])

\* the lowercase base letter of a character, nothing for a combining mark
BaseChars(c) ==
  CASE c \in {"A", "a"} -> <<"a">>
    [] c \in {"O", "o", "o_acute", "O_ACUTE"} -> <<"o">>
    [] c \in {"n", "n_tilde"} -> <<"n">>
    [] c \in CombiningMarks -> <<>>
    [] OTHER -> <<c>>

RECURSIVE BaseText(_)
BaseText(s) == IF s = <<>> THEN <<>> ELSE BaseChars(Head(s)) \o BaseText(Tail(s))

RECURSIVE WordsOf(_, _)
\* the maximal runs of letters and digits of s, word being the run in hand
WordsOf(s, word) ==
  IF s = <<>> THEN (IF word = <<>> THEN <<>> ELSE <<word>>)
  ELSE IF Head(s) \in LowerLetters \cup Digits THEN WordsOf(Tail(s), Append(word, Head(s)))
  ELSE (IF word = <<>> THEN <<>> ELSE <<word>>) \o WordsOf(Tail(s), <<>>)

RECURSIVE JoinHyphen(_)
JoinHyphen(words) ==
  IF words = <<>> THEN <<>>
  ELSE IF Len(words) = 1 THEN words[1]
  ELSE words[1] \o <<"-">> \o JoinHyphen(Tail(words))

\* the transliteration of a title: its words, in lowercase base letters and
\* digits, joined by single hyphens
Transliteration(title) == JoinHyphen(WordsOf(BaseText(title), <<>>))

\* the text of the Slug property of the page, empty if it has none
ExplicitSlug(page) ==
  IF "Slug" \in DOMAIN page.properties /\ page.properties["Slug"].type = "rich_text"
  THEN JoinRuns(page.properties["Slug"].runs)
  ELSE <<>>

\* the title of the page: its first non-empty title among Name, Titulo, Title
TitleOf(page) ==
  LET titles == SelectSeq(<<"Name", "Titulo", "Title">>,
                          LAMBDA n : /\ n \in DOMAIN page.properties
                                     /\ page.properties[n].type = "title"
                                     /\ JoinRuns(page.properties[n].runs) # <<>>)
  IN  IF titles = <<>> THEN <<>> ELSE JoinRuns(page.properties[titles[1]].runs)

\* C16: the slug of a record with a non-empty explicit Slug is that value,
\* whatever its title; only without one is the slug the transliteration of
\* the title: lowercase, diacritics stripped, every run of other characters
\* a single hyphen, none at the start or the end.
C16_SlugPrecedence ==
  slugCall.pc = "returned" =>
    slugCall.ret = IF ExplicitSlug(slugCall.page) # <<>>
                   THEN ExplicitSlug(slugCall.page)
                   ELSE Transliteration(TitleOf(slugCall.page))

\* the explicit Slug a-1 of a page titled "O 1", whose transliteration is o-1
C16_Witness ==
  /\ slugCall.pc = "returned"
  /\ ExplicitSlug(slugCall.page) = <<"a", "-", "1">>
  /\ Transliteration(TitleOf(slugCall.page)) = <<"o", "-", "1">>
  /\ slugCall.ret = <<"a", "-", "1">>


(***************************************************************************)
(* getBlocks: the block tree of a page, fetched depth-first.  Each          *)
(* activation of getBlocks is a frame; the innermost one is the last.      *)
(***************************************************************************)
MaxBlockCalls == 2

Frame(blockId) == [blockId |-> blockId, blocks |-> <<>>, cursor |-> 0, todo |-> <<>>]

SetTop(st, f) == [st EXCEPT ![Len(st)] = f]

\* children are attached only when there are some
AttachChildrenIfAny(b, children) ==
  IF children = <<>> THEN b
  ELSE [b EXCEPT !.children = [present |-> TRUE, list |-> children]]

\* the children go to the first block of the list
AttachFirst(blocks, children) ==
  [blocks EXCEPT ![1] = [@ EXCEPT !.children = [present |-> TRUE, list |-> children]]]

\* (b as any).children = children
AttachChildren(b, children) ==
  [b EXCEPT !.children = [present |-> TRUE, list |-> children]]

\* b is the block pushed last, the same object the list holds
AttachLast(blocks, children) ==
  [blocks EXCEPT ![Len(blocks)] = AttachChildren(@, children)]

\* getBlocks from a response in hand up to its next suspension or its return:
\* the rest of the for loop, the cursor test, cacheSet, and the caller's
\* continuation when an inner activation returns; wrote lists the containers
\* whose entries cacheSet wrote, in the order of the writes
RECURSIVE Advance(_, _, _, _, _)
Advance(st, files, wrote, e, t) ==
  LET top == st[Len(st)]
  IN  IF top.todo # <<>> THEN
        LET b == Head(top.todo)
            rest == Tail(top.todo)
            pushed == [top EXCEPT !.blocks = Append(@, b), !.todo = rest]
            cached == cacheGet(files, BlocksKey(b.id), e, t)
        IN  IF ~b.typed THEN
              Advance(SetTop(st, [top EXCEPT !.todo = rest]), files, wrote, e, t)
            ELSE IF ~b.has_children THEN
              Advance(SetTop(st, pushed), files, wrote, e, t)
            ELSE IF IsTruthy(cached) THEN
              Advance(SetTop(st, [pushed EXCEPT !.blocks = AttachLast(@, cached.data)]),
                      files, wrote, e, t)
            ELSE
              [pc |-> "await", stack |-> Append(SetTop(st, pushed), Frame(b.id)),
               files |-> files, wrote |-> wrote, ret |-> <<>>]
      ELSE IF top.cursor # 0 THEN
        [pc |-> "await", stack |-> st, files |-> files, wrote |-> wrote, ret |-> <<>>]
      ELSE
        LET saved == cacheSet(files, BlocksKey(top.blockId), top.blocks, t)
        IN  IF Len(st) = 1 THEN
              [pc |-> "done", stack |-> <<>>, files |-> saved,
               wrote |-> Append(wrote, top.blockId),
               ret |-> top.blocks]
            ELSE
              LET caller == st[Len(st) - 1]
                  resumed == [caller EXCEPT !.blocks = AttachLast(@, top.blocks)]
              IN  Advance(Append(SubSeq(st, 1, Len(st) - 2), resumed), saved,
                          Append(wrote, top.blockId), e, t)

\* getBlocks(root) up to its first suspension: the cache lookup and the
\* first request
BlocksStart(root) ==
  LET cached == cacheGet(cache, BlocksKey(root), env, now)
      begun == [bp EXCEPT !.root = root, !.stack = <<>>, !.ret = <<>>, !.hit = FALSE,
                          !.err = "", !.calls = @ + 1, !.requests = 0, !.sent = 0,
                          !.log = <<>>]
  IN  /\ bp.pc \in {"idle", "done", "failed"}
      /\ bp.calls < MaxBlockCalls
      /\ IF IsTruthy(cached) THEN
           /\ bp' = [begun EXCEPT !.pc = "done", !.ret = cached.data, !.hit = TRUE]
           /\ UNCHANGED notion
         ELSE IF ClientThrows(notion, env) THEN
           /\ bp' = [begun EXCEPT !.pc = "failed", !.err = "NOTION_TOKEN"]
           /\ UNCHANGED notion
         ELSE
           /\ bp' = [begun EXCEPT !.pc = "await", !.stack = <<Frame(root)>>,
                                  !.sent = SendRequest(0)]
           /\ notion' = getClient(notion)
      /\ cacheDir' = TRUE
      /\ UNCHANGED <<env, img, now, remote, serverCap, edits, cache, store, lp,
                     hist, slugCall, cacheCall, tree>>

\* a blocks.children.list response arrives for the innermost activation
BlocksArrive ==
  /\ bp.pc = "await"
  /\ LET top == bp.stack[Len(bp.stack)]
         response == RemotePage(tree[top.blockId], top.cursor, PageSize, serverCap)
         got == [top EXCEPT !.todo = response.results, !.cursor = NextCursor(response)]
         out == Advance(SetTop(bp.stack, got), cache, <<>>, env, now)
     IN  /\ bp' = [bp EXCEPT !.pc = out.pc, !.stack = out.stack, !.ret = out.ret,
                             !.requests = @ + 1,
                             !.sent = IF out.pc = "await" THEN SendRequest(@) ELSE @,
                             !.log = @ \o out.wrote]
         /\ cache' = out.files
         /\ cacheDir' = (cacheDir \/ out.wrote # <<>>)
         \* a further request: getClient() again, _notion being set by now
         /\ notion' = IF out.pc = "await" THEN getClient(notion) ELSE notion
  /\ UNCHANGED <<env, img, now, remote, serverCap, edits, store, lp, hist,
                 slugCall, cacheCall, tree>>

\* the request rejects: the rejection passes through every activation
BlocksFail ==
  /\ bp.pc = "await"
  /\ bp' = [bp EXCEPT !.pc = "failed", !.stack = <<>>, !.err = "request",
                      !.requests = @ + 1]
  /\ UNCHANGED <<env, img, now, remote, serverCap, edits, notion, cacheDir, cache, store,
                 lp, hist, slugCall, cacheCall, tree>>

\* somebody edits the page in the workspace
TreeEdit ==
  /\ edits < MaxEdits
  /\ tree = TreeV1
  /\ tree' = TreeV2
  /\ edits' = edits + 1
  /\ UNCHANGED <<env, img, now, remote, serverCap, notion, cacheDir, cache, store, lp,
                 hist, slugCall, cacheCall, bp>>

BlockRoots == {0, 1, 4}

BlockEnvs ==
  [NOTION_TOKEN : BOOLEAN, NOTION_BLOG_DB : {"dsA"}, NOTION_LESSONS_DB : {"dsB"},
   DEV : {"true", "false"}, NODE_ENV : {"development"}]

InitBlocks ==
  /\ env \in BlockEnvs
  /\ now = StartMs
  /\ remote = [ds \in DataSources |-> IF ds = "dsA" THEN DatasetV1 ELSE DatasetB]
  /\ serverCap = ServerCap
  /\ edits = 0
  /\ notion = "null"
  /\ cacheDir = FALSE
  /\ cache = [k \in CacheKeys |-> NoFile]
  /\ store = [L \in Loaders |-> EmptyStore]
  /\ lp = [L \in Loaders |-> IdleLoader]
  /\ hist = [L \in Loaders |-> NoHist]
  /\ slugCall = NoSlugCall
  /\ cacheCall = NoCacheCall
  /\ tree = TreeV1
  /\ bp = IdleBlocks
  /\ img = NoImages

NextBlocks ==
  \/ \E root \in BlockRoots : BlocksStart(root)
  \/ BlocksArrive
  \/ BlocksFail
  \/ Tick(CoarseTick, StartMs + MaxTicks * CoarseTick)
  \/ TreeEdit

SpecBlocks == InitBlocks /\ [][NextBlocks]_vars

\* every block flagged has_children carries a children list, at every depth
RECURSIVE Resolved(_)
Resolved(blocks) ==
  \A i \in 1..Len(blocks) :
    /\ blocks[i].has_children => blocks[i].children.present
    /\ Resolved(blocks[i].children.list)

\* C7: when getBlocks resolves, every block of the returned tree that is
\* flagged as having children has its children attached, at every depth,
\* whatever the cache held when it was called.
C7_BlocksFullyResolved ==
  bp.pc = "done" => Resolved(bp.ret)

\* getBlocks of the page resolved from the remote alone, three levels deep,
\* with a container none of whose children is a full block
C7_Witness ==
  /\ bp.pc = "done"
  /\ ~bp.hit
  /\ bp.root = 0
  /\ bp.requests >= 5
  /\ Len(bp.ret) = 2
  /\ bp.ret[1].id = 1
  /\ Len(bp.ret[1].children.list) = 2
  /\ bp.ret[1].children.list[1].children.list = <<Block(6, FALSE)>>
  /\ bp.ret[1].children.list[2].children = [present |-> TRUE, list |-> <<>>]

(***************************************************************************)
(* Specification of one process that runs the blog loader and getBlocks    *)
(* over a cache directory that an earlier process may have filled.         *)
(***************************************************************************)
\* what an earlier build left under db-dsA and under blocks-1
WarmPages == PagesOf(RemoteQuery(DatasetV1, PublishedFilter, SortFechaDesc))
WarmBlocks ==
  <<AttachChildren(Block(3, TRUE), <<Block(6, FALSE)>>), AttachChildren(Block(4, TRUE), <<>>)>>

WarmCaches ==
  {[k \in CacheKeys |->
      IF k = DbKey("dsA") /\ db
      THEN [exists |-> TRUE, json |-> JSONStringify(WarmPages), mtimeMs |-> StartMs]
      ELSE IF k = BlocksKey(1) /\ bl
      THEN [exists |-> TRUE, json |-> JSONStringify(WarmBlocks), mtimeMs |-> StartMs]
      ELSE NoFile] : db \in BOOLEAN, bl \in BOOLEAN}

InitClient ==
  /\ env \in BlockEnvs
  /\ now = StartMs
  /\ \E d \in {DatasetV1, DatasetDrafts} :
       remote = [ds \in DataSources |-> IF ds = "dsA" THEN d ELSE DatasetB]
  /\ serverCap = ServerCap
  /\ edits = 0
  /\ notion = "null"
  /\ cache \in WarmCaches
  /\ cacheDir = (cache # [k \in CacheKeys |-> NoFile])
  /\ store = [L \in Loaders |-> StaleStore(L)]
  /\ lp = [L \in Loaders |-> IdleLoader]
  /\ hist = [L \in Loaders |-> NoHist]
  /\ slugCall = NoSlugCall
  /\ cacheCall = NoCacheCall
  /\ tree = TreeV1
  /\ bp = IdleBlocks
  /\ img = NoImages

NextClient ==
  \/ \E L \in {"blog"} : LoadStart(L)
  \/ \E L \in {"blog"} : PageArrives(L)
  \/ \E L \in {"blog"} : PageFails(L)
  \/ \E L \in {"blog"} : LoadFinish(L)
  \/ \E root \in BlockRoots : BlocksStart(root)
  \/ BlocksArrive
  \/ BlocksFail
  \/ Tick(CoarseTick, StartMs + MaxTicks * CoarseTick)

SpecClient == InitClient /\ [][NextClient]_vars

TokenError == "NOTION_TOKEN is not set in .env"

\* this step sends a request to the remote API
IssuesRequest ==
  \/ \E L \in Loaders : lp'[L].pc = "awaitPage" /\ lp'[L] # lp[L]
  \/ bp'.pc = "await" /\ bp' # bp

\* this step is an operation that finds its answer in the cache
ServedFromCache ==
  \/ \E L \in Loaders : lp'[L] # lp[L] /\ lp'[L].hit
  \/ bp' # bp /\ bp'.hit

\* this step is an operation that ends in the missing-token error
RaisesTokenError ==
  \/ \E L \in Loaders : lp'[L] # lp[L] /\ lp'[L].err = TokenError
  \/ bp' # bp /\ bp'.err = "NOTION_TOKEN"

\* C13: in one process the client is built at most once, and only by the
\* first operation that sends a request to the remote API; a missing token
\* is a fatal error of that operation and of no earlier one: not of the
\* module load, and not of an operation served from the cache.
C13_ClientOnceAtFirstUse ==
  /\ [](notion = "null" /\ bp.calls = 0 /\ (\A L \in Loaders : lp[L].runs = 0)
          => bp.err = "" /\ \A L \in Loaders : lp[L].err = "")
  /\ [][/\ notion # "null" => notion' = notion
        /\ (notion = "null" /\ notion' # "null") => IssuesRequest
        /\ IssuesRequest => notion' # "null" /\ env.NOTION_TOKEN
        /\ ServedFromCache => notion' = notion /\ ~RaisesTokenError
        /\ RaisesTokenError => notion = "null" /\ notion' = "null" /\ ~env.NOTION_TOKEN
       ]_vars

\* one client served the two requests of the loader and those of getBlocks,
\* after a first call of getBlocks was served from the cache
C13_Witness ==
  /\ notion = "client"
  /\ lp["blog"].pc = "done" /\ ~lp["blog"].hit /\ lp["blog"].requests = 2
  /\ bp.pc = "done" /\ ~bp.hit /\ bp.requests >= 2 /\ bp.calls = 2
  /\ cache[BlocksKey(1)].mtimeMs = StartMs

\* requests sent and not yet answered, by a loader and by getBlocks
Outstanding(L) == lp[L].requests - lp[L].responses
OutstandingBlocks == bp.sent - bp.requests

\* C14: within one loader and within one resolution of getBlocks at most
\* one remote request is outstanding at any moment, so that a page request
\* or a child container's request is sent only after the answer to the one
\* before it has come.
C14_RequestsSequential ==
  /\ \A L \in Loaders :
       /\ Outstanding(L) \in {0, 1}
       /\ Outstanding(L) = 1 <=> lp[L].pc = "awaitPage"
  /\ OutstandingBlocks \in {0, 1}
  /\ OutstandingBlocks = 1 <=> bp.pc = "await"

\* the loader waits for its second page, the first being answered, and
\* getBlocks for the children of a block two levels down, its third request
C14_Witness ==
  /\ lp["blog"].pc = "awaitPage"
  /\ lp["blog"].requests = 2 /\ lp["blog"].responses = 1
  /\ bp.pc = "await"
  /\ Len(bp.stack) = 3
  /\ bp.sent = 3 /\ bp.requests = 2

\* cacheGet as queryDatabase and getBlocks call it at the start of this step
EntryOfQuery(L) == cacheGet(cache, DbKey(lp'[L].dataSourceId), env, now)
EntryOfBlocks == cacheGet(cache, BlocksKey(bp'.root), env, now)

\* this step is the start of a call of queryDatabase, and of getBlocks
QueryStarts(L) == lp'[L].runs = lp[L].runs + 1 /\ lp'[L].queried
BlocksStarts == bp'.calls = bp.calls + 1

\* C18: when cacheGet returns an entry for the key, an empty list included,
\* queryDatabase and getBlocks return that entry, send no request to the
\* remote, for no block of the subtree either, and leave the cache as it is.
C18_CacheHitNoRequests ==
  /\ [][/\ \A L \in Loaders :
             (QueryStarts(L) /\ EntryOfQuery(L).hit) =>
               /\ lp'[L].pc = "resolved"
               /\ lp'[L].ret = EntryOfQuery(L).data
               /\ lp'[L].requests = 0
               /\ cache' = cache
        /\ (BlocksStarts /\ EntryOfBlocks.hit) =>
             /\ bp'.pc = "done"
             /\ bp'.ret = EntryOfBlocks.data
             /\ bp'.sent = 0
             /\ cache' = cache
       ]_vars
  /\ [](\A L \in Loaders : lp[L].hit => lp[L].requests = 0 /\ lp[L].pc \in {"resolved", "done"})
  /\ [](bp.hit => bp.sent = 0 /\ bp.requests = 0 /\ bp.pc = "done")

\* the loader and getBlocks were both served an entry that is the empty
\* list, written by this process, and sent nothing
C18_Witness ==
  /\ lp["blog"].pc = "done" /\ lp["blog"].hit
  /\ lp["blog"].ret = <<>> /\ lp["blog"].requests = 0
  /\ cache[DbKey("dsA")].exists /\ cache[DbKey("dsA")].mtimeMs > StartMs
  /\ bp.pc = "done" /\ bp.hit /\ bp.root = 4
  /\ bp.ret = <<>> /\ bp.sent = 0

\* the ids of the full blocks a container lists, and those of a saved list
TypedIds(blocks) ==
  LET typed == SelectSeq(blocks, LAMBDA b : b.typed)
  IN  [i \in 1..Len(typed) |-> typed[i].id]
IdsOf(blocks) == [i \in 1..Len(blocks) |-> blocks[i].id]

\* the activations of getBlocks that are suspended
ActiveBlocks(b) == {b.stack[i].blockId : i \in 1..Len(b.stack)}

\* this step receives the last page of the query of L and returns
QueryCompletes(L, k) ==
  /\ lp[L].pc = "awaitPage" /\ lp'[L].pc = "resolved"
  /\ k = DbKey(lp[L].dataSourceId)
  /\ JSONParse(cache'[k].json) = lp'[L].ret
  /\ lp'[L].ret = OwnAnswer(L)

\* this step receives the last page of container c, all the containers
\* below it being resolved, and the activation for c returns
BlocksComplete(c, k) ==
  /\ bp.pc = "await"
  /\ k = BlocksKey(c)
  /\ c \in ActiveBlocks(bp) \ ActiveBlocks(bp')
  /\ bp'.pc # "failed"
  /\ IdsOf(JSONParse(cache'[k].json)) = TypedIds(tree[c])
  /\ Resolved(JSONParse(cache'[k].json))

\* this step is the failure of a page request
RequestFails ==
  \/ \E L \in Loaders : lp[L].pc = "awaitPage" /\ lp'[L].pc = "failed"
  \/ bp.pc = "await" /\ bp'.pc = "failed"

\* C19: the cache entry of a key is created or replaced only by the step
\* that completes the fetch for that key over all its pages, and then holds
\* the full result; a failing page request of queryDatabase or of getBlocks
\* leaves the entry of the call's key, as every entry, exactly as it was.
C19_CacheWrittenAfterFullFetch ==
  [][/\ \A k \in CacheKeys :
          cache'[k] # cache[k] =>
            \/ \E L \in Loaders : QueryCompletes(L, k)
            \/ \E c \in BlockIds : BlocksComplete(c, k)
     /\ RequestFails => cache' = cache
    ]_vars

\* the second page request of the loader failed and the entry an earlier
\* process left, stale by now, is still there; getBlocks failed at its third
\* request and no entry was made for the page
C19_Witness ==
  /\ lp["blog"].pc = "failed" /\ lp["blog"].err = "remote" /\ lp["blog"].requests = 2
  /\ cache[DbKey("dsA")].exists
  /\ cache[DbKey("dsA")].mtimeMs = StartMs
  /\ now - StartMs > CACHE_TTL
  /\ bp.pc = "failed" /\ bp.err = "request" /\ bp.sent = 3 /\ bp.root = 0
  /\ ~cache[BlocksKey(0)].exists

(***************************************************************************)
(* Specification of the pagination loop of queryDatabase against a remote  *)
(* that answers each request as it likes: any has_more, any cursor or      *)
(* none, any results, but no more than MaxPages pages to one call.         *)
(***************************************************************************)
\* most pages the remote serves to one call
MaxPages == 3

\* the cursors the remote hands out; 0 is no cursor (next_cursor: null)
CursorTokens == 0..2

ResultSets == {<<>>, <<BigObj(1)>>, <<BigObj(2), PartialObj(6)>>}

\* what the remote may answer to the request that is the sent-th of a call
Responses(sent) ==
  IF sent >= MaxPages
  THEN {[results |-> rs, has_more |-> FALSE, next_cursor |-> 0] : rs \in ResultSets}
  ELSE {[results |-> rs, has_more |-> h, next_cursor |-> c] :
          rs \in ResultSets, h \in BOOLEAN, c \in CursorTokens}

AnyResponse(L) == \E response \in Responses(lp[L].requests) : Receive(L, response)

InitLoop ==
  /\ env \in [NOTION_TOKEN : BOOLEAN, NOTION_BLOG_DB : {"dsA"},
              NOTION_LESSONS_DB : {"dsB"}, DEV : {"true", "false"},
              NODE_ENV : {"production"}]
  /\ now = StartMs
  /\ remote = [ds \in DataSources |-> <<>>]
  /\ serverCap = PageSize
  /\ edits = 0
  /\ notion = "null"
  /\ cacheDir = FALSE
  /\ cache = [k \in CacheKeys |-> NoFile]
  /\ store = [L \in Loaders |-> StaleStore(L)]
  /\ lp = [L \in Loaders |-> IdleLoader]
  /\ hist = [L \in Loaders |-> NoHist]
  /\ slugCall = NoSlugCall
  /\ cacheCall = NoCacheCall
  /\ tree = TreeV1
  /\ bp = IdleBlocks
  /\ img = NoImages

NextLoop ==
  \/ LoadStart("blog")
  \/ AnyResponse("blog")
  \/ LoadFinish("blog")

\* the remote answers every request
SpecLoop == InitLoop /\ [][NextLoop]_vars /\ WF_vars(AnyResponse("blog"))

\* the last response asks for another request: more pages, and a cursor
Continues(last) == last.has_more /\ last.next_cursor # 0

\* C20: the loop of queryDatabase sends its first request without a cursor
\* and every further one with the cursor of the response before it, sends
\* no further request once a response reports no more pages or carries no
\* cursor, and the call returns if the remote serves finitely many pages.
C20_PaginationLoopTerminates ==
  /\ [](lp["blog"].pc = "awaitPage" =>
          IF lp["blog"].requests = 1
          THEN lp["blog"].cursor = 0
          ELSE /\ Continues(lp["blog"].last)
               /\ lp["blog"].cursor = lp["blog"].last.next_cursor)
  /\ []((Returned("blog") /\ ~lp["blog"].hit) =>
          /\ ~Continues(lp["blog"].last)
          /\ lp["blog"].responses = lp["blog"].requests)
  /\ (lp["blog"].pc = "awaitPage" ~> Returned("blog"))

\* the call returned after its second response, which reported more pages
\* and carried no cursor
C20_Witness ==
  /\ lp["blog"].pc = "resolved" /\ ~lp["blog"].hit
  /\ lp["blog"].requests = 2 /\ lp["blog"].responses = 2
  /\ lp["blog"].last.has_more /\ lp["blog"].last.next_cursor = 0
  /\ Len(lp["blog"].ret) = 2

(***************************************************************************)
(* downloadImage.  A call runs to its first await (fetch), then to its     *)
(* second (res.arrayBuffer()), then writes the file; other calls may run   *)
(* between the awaits.                                                     *)
(***************************************************************************)
InProgress(c) == img.calls[c].pc \in {"fetch", "body"}

\* the calls in progress for the file safeName, other than c
Others(c, safeName) ==
  {d \in 1..MaxImageCalls : d # c /\ InProgress(d) /\ img.calls[d].safeName = safeName}

\* the file is never found, so every call downloads
AlreadyDownloadedNever(files, safeName) == FALSE

\* fs.existsSync(filePath)
AlreadyDownloaded(files, safeName) == safeName \in files

\* the call, up to `await fetch(url)` or to the early return
DownloadStart(c, url, filename) ==
  LET safeName == SafeName(url, filename)
      there == AlreadyDownloaded(img.files, safeName)
      others == Others(c, safeName)
      call == [NoCall EXCEPT !.url = url, !.filename = filename,
                             !.safeName = safeName, !.existed = there,
                             !.alone = (others = {})]
  IN  /\ img.calls[c].pc = "idle"
      /\ IF c = 1 THEN TRUE ELSE img.calls[c - 1].pc # "idle"
      /\ img' = [img EXCEPT
           !.dir = TRUE,
           !.calls = [d \in 1..MaxImageCalls |->
              IF d = c
              THEN IF there
                   THEN [call EXCEPT !.pc = "done", !.ret = PublicPath(safeName)]
                   ELSE [call EXCEPT !.pc = "fetch", !.fetched = TRUE]
              ELSE IF d \in others THEN [img.calls[d] EXCEPT !.alone = FALSE]
              ELSE img.calls[d]]]
      /\ UNCHANGED <<env, now, remote, serverCap, edits, notion, cacheDir, cache, store,
                     lp, hist, slugCall, cacheCall, tree, bp>>

\* fetch resolves: a response that is not ok returns the url
FetchResolves(c, ok) ==
  /\ img.calls[c].pc = "fetch"
  /\ img' = [img EXCEPT !.calls[c] =
       IF ok THEN [@ EXCEPT !.pc = "body"]
       ELSE [@ EXCEPT !.pc = "done", !.ret = img.calls[c].url]]
  /\ UNCHANGED <<env, now, remote, serverCap, edits, notion, cacheDir, cache, store,
                 lp, hist, slugCall, cacheCall, tree, bp>>

\* res.arrayBuffer() resolves: the file is written and its public path returned
BodyArrives(c) ==
  /\ img.calls[c].pc = "body"
  /\ img' = [img EXCEPT
       !.files = @ \cup {img.calls[c].safeName},
       !.calls[c] = [@ EXCEPT !.pc = "done", !.wrote = TRUE,
                              !.ret = PublicPath(img.calls[c].safeName)]]
  /\ UNCHANGED <<env, now, remote, serverCap, edits, notion, cacheDir, cache, store,
                 lp, hist, slugCall, cacheCall, tree, bp>>

\* fetch or res.arrayBuffer() rejects: the call throws
DownloadRejects(c) ==
  /\ InProgress(c)
  /\ img' = [img EXCEPT !.calls[c] = [@ EXCEPT !.pc = "done", !.threw = TRUE]]
  /\ UNCHANGED <<env, now, remote, serverCap, edits, notion, cacheDir, cache, store,
                 lp, hist, slugCall, cacheCall, tree, bp>>

\* a mirror left by an earlier build holds any of the files
InitImages ==
  /\ env \in StepEnvs
  /\ now = StartMs
  /\ remote = [ds \in DataSources |-> IF ds = "dsA" THEN DatasetV1 ELSE DatasetB]
  /\ serverCap = ServerCap
  /\ edits = 0
  /\ notion = "null"
  /\ cacheDir = FALSE
  /\ cache = [k \in CacheKeys |-> NoFile]
  /\ store = [L \in Loaders |-> EmptyStore]
  /\ lp = [L \in Loaders |-> IdleLoader]
  /\ hist = [L \in Loaders |-> NoHist]
  /\ slugCall = NoSlugCall
  /\ cacheCall = NoCacheCall
  /\ tree = TreeV1
  /\ bp = IdleBlocks
  /\ \E mirror \in SUBSET ImageFiles :
       /\ Cardinality(mirror) <= 1
       /\ img = [NoImages EXCEPT !.dir = (mirror # {}), !.files = mirror]

NextImages ==
  \/ \E c \in 1..MaxImageCalls, a \in ImageArgs : DownloadStart(c, a[1], a[2])
  \/ \E c \in 1..MaxImageCalls, ok \in BOOLEAN : FetchResolves(c, ok)
  \/ \E c \in 1..MaxImageCalls : BodyArrives(c)
  \/ \E c \in 1..MaxImageCalls : DownloadRejects(c)

SpecImages == InitImages /\ [][NextImages]_vars

(***************************************************************************)
(* C21.                                                                    *)
(***************************************************************************)
ImageCalls == 1..MaxImageCalls

\* the calls that wrote the file safeName
Writers(safeName) ==
  {c \in ImageCalls : img.calls[c].wrote /\ img.calls[c].safeName = safeName}

\* the calls made with this url and this logical name
CallsWith(url, filename) ==
  {c \in ImageCalls : /\ img.calls[c].pc # "idle"
                      /\ img.calls[c].url = url
                      /\ img.calls[c].filename = filename}

\* a call that finds its file returns the public path at once: it fetches
\* nothing and IMG_DIR keeps its files
SkipsWhenPresent ==
  [][\A c \in ImageCalls :
       (/\ img.calls[c].pc = "idle"
        /\ img'.calls[c].pc # "idle"
        /\ img'.calls[c].safeName \in img.files)
       => /\ img'.calls[c].pc = "done"
          /\ ~img'.calls[c].fetched
          /\ img'.files = img.files
          /\ img'.calls[c].ret = PublicPath(SafeName(img'.calls[c].url,
                                                     img'.calls[c].filename))]_vars

\* a response that is not ok ends the call with the url, and IMG_DIR keeps
\* its files; the only step of a call that adds a file is the one that
\* returns its public path
NotOkWritesNothing ==
  [][\A c \in ImageCalls :
       /\ (/\ img.calls[c].pc = "fetch"
           /\ img'.calls[c].pc = "done"
           /\ ~img'.calls[c].threw)
          => /\ img'.files = img.files
             /\ img'.calls[c].ret = img.calls[c].url
             /\ ~img'.calls[c].wrote
       /\ (img'.calls[c].wrote /\ ~img.calls[c].wrote)
          => /\ img.calls[c].pc = "body"
             /\ img'.files = img.files \cup {img.calls[c].safeName}
             /\ img'.calls[c].ret = PublicPath(img.calls[c].safeName)]_vars

\* C21 as stated: a call that finds its file fetches nothing, writes nothing
\* and returns the public path; over the calls made with one url and one
\* name the file is written at most once; a response that is not ok writes
\* nothing and returns the url.
C21_WrittenAtMostOnce ==
  /\ SkipsWhenPresent
  /\ NotOkWritesNothing
  /\ [](\A a \in ImageArgs :
          Cardinality({c \in CallsWith(a[1], a[2]) : img.calls[c].wrote}) <= 1)

\* C21, amended: a call that finds its file fetches nothing, writes nothing
\* and returns the public path; over calls for one file none of which starts
\* while another is in progress, the file is written at most once; a
\* response that is not ok writes nothing and returns the url.
C21_WrittenOncePerSequentialCalls ==
  /\ SkipsWhenPresent
  /\ NotOkWritesNothing
  /\ [](\A f \in ImageFiles :
          (\A c \in ImageCalls : img.calls[c].safeName = f => img.calls[c].alone)
          => Cardinality(Writers(f)) <= 1)

\* the first call downloaded and wrote the file; the second call, made with
\* the same url and name after the first returned, found it and fetched nothing
C21_Witness ==
  /\ img.calls[1].pc = "done" /\ img.calls[1].wrote /\ img.calls[1].alone
  /\ img.calls[2].pc = "done" /\ img.calls[2].alone
  /\ img.calls[2].url = img.calls[1].url
  /\ img.calls[2].filename = img.calls[1].filename
  /\ img.calls[2].existed /\ ~img.calls[2].fetched /\ ~img.calls[2].wrote
  /\ img.calls[2].ret = PublicPath(img.calls[1].safeName)

(***************************************************************************)
(* C22.                                                                    *)
(***************************************************************************)
\* the entry blocks-{id} as cacheGet would parse it
BlocksEntry(id) == JSONParse(cache[BlocksKey(id)].json)

BlocksEntryExists(id) == cache[BlocksKey(id)].exists

\* the containers of a block list: the blocks flagged has_children, at every depth
RECURSIVE Containers(_)
Containers(blocks) ==
  UNION {(IF blocks[i].has_children THEN {blocks[i].id} ELSE {})
           \cup Containers(blocks[i].children.list) : i \in 1..Len(blocks)}

\* every container among these blocks carries, as its children, the entry
\* written under its own id, at every depth
RECURSIVE EmbedsEntries(_)
EmbedsEntries(blocks) ==
  \A i \in 1..Len(blocks) :
    /\ blocks[i].has_children =>
         /\ blocks[i].children.present
         /\ blocks[i].children.list = BlocksEntry(blocks[i].id)
    /\ EmbedsEntries(blocks[i].children.list)

\* the resolution in progress started on a cache with no entry
ColdResolution == bp.calls = 1 /\ ~bp.hit

\* C22: in a getBlocks resolution, the entry of every descendant container
\* is written before the entry of its parent container (on a cold cache, by
\* this resolution; otherwise it may be one found in the cache); the
\* parent's entry embeds the resolved children of each of its blocks, which
\* on a cold cache are the entries of those blocks; and an entry that exists
\* holds no block flagged has_children without a children field.
C22_ChildrenCachedBeforeParent ==
  /\ \A j \in 1..Len(bp.log) :
       /\ BlocksEntryExists(bp.log[j])
       /\ \A d \in Containers(BlocksEntry(bp.log[j])) :
            /\ BlocksEntryExists(d)
            /\ \/ \E i \in 1..(j - 1) : bp.log[i] = d
               \/ ~ColdResolution /\ \A i \in 1..Len(bp.log) : bp.log[i] # d
       /\ ColdResolution => EmbedsEntries(BlocksEntry(bp.log[j]))
  /\ \A id \in BlockIds : BlocksEntryExists(id) => Resolved(BlocksEntry(id))

\* the page resolved on a cold cache: the entries of 3 and 4 were written
\* before that of their parent 1, and that of 1 before that of the page
C22_Witness ==
  /\ ColdResolution
  /\ bp.pc = "done"
  /\ bp.root = 0
  /\ bp.log = <<3, 4, 1, 0>>
  /\ Containers(BlocksEntry(0)) = {1, 3, 4}
  /\ BlocksEntry(0)[1].children.list = BlocksEntry(1)

====
